---------------------------- MODULE Spec2Model ----------------------------
(***************************************************************************)
(* PII redaction engine of the sidecar (sidecar/app/security.py):          *)
(* PIIScrubber construction with its fail-closed secrets, the process-wide *)
(* caches, get_salt, and scrub with its gates, detector call and span loop.*)
(*                                                                         *)
(* Conventions.  A str is a sequence of one-character strings.  An         *)
(* Optional value is None (the empty sequence) or Some(x) (<<x>>).         *)
(* os.environ is a function whose domain holds the variables that are set. *)
(* Digests are symbolic: sha256 and hmac are injective constructors over   *)
(* the material they are given.  A scrubbed string is a sequence of        *)
(* literal characters [ch |-> c] and digests.                              *)
(***************************************************************************)
EXTENDS Integers, Sequences, FiniteSets, TLC

VARIABLES
    environ,            \* os.environ restricted to the two secret variables
    _SALT_SECRET,       \* module global: Optional[bytes]
    _DEFAULT_ANALYZER,  \* module global: Optional[AnalyzerEngine]
    built,              \* number of AnalyzerEngine() constructions so far
    now,                \* the wall clock (UTC), in ticks
    engines,            \* the PIIScrubber instances handed to callers
    pc,                 \* per thread: position in the call it is running
    frame,              \* per thread: locals of the running call
    result,             \* per thread: outcome of its last finished call
    reads,              \* per variable: number of os.environ.get calls
    calls,              \* number of calls started (bounded)
    writes,             \* number of environment changes (bounded)
    _PIISCRUBBER,       \* main.py global: the instance built at startup, or None
    _BLOCKED_COUNTER,   \* main.py global: the blocked-request counter, or None
    request,            \* the /analyze request being handled: the handler's locals
    background_tasks,   \* the tasks the handler has enqueued, not yet run
    whylogs,            \* every payload handed to why.log, in order
    payload,            \* canonicalization tests: the payload a test starts from
    rewritten,          \* the same payload written differently
    rewrites,           \* number of rewritings so far (bounded)
    canonical           \* the canonical JSON and the hash of both, once computed

\* the state of main.py
main == <<_PIISCRUBBER, _BLOCKED_COUNTER, request, background_tasks, whylogs>>

\* the state of security.py and of its callers
security == <<environ, _SALT_SECRET, _DEFAULT_ANALYZER, built, now, engines,
              pc, frame, result, reads, calls, writes>>

\* the state of the canonicalization tests
tests == <<payload, rewritten, rewrites, canonical>>

vars == <<environ, _SALT_SECRET, _DEFAULT_ANALYZER, built, now, engines,
          pc, frame, result, reads, calls, writes, main, tests>>

-----------------------------------------------------------------------------
(* Bounds of the model *)

NThreads == 2
MaxCalls == 2
MaxEnvWrites == 1
MaxNow == 2
TicksPerMonth == 2
MaxSpans == 1
MaxSpansWide == 2
MaxRewrites == 3

Threads == 1..NThreads

-----------------------------------------------------------------------------
(* Optional values *)

None == <<>>
Some(x) == <<x>>
Get(o) == o[1]

\* Python `x or 0` for an Optional[int]
OrZero(o) == IF o = None THEN 0 ELSE IF Get(o) = 0 THEN 0 ELSE Get(o)

-----------------------------------------------------------------------------
(* Strings *)

Whitespace == {" ", "\t", "\n", "\r"}

RECURSIVE LStrip(_)
LStrip(s) == IF s # <<>> /\ Head(s) \in Whitespace THEN LStrip(Tail(s)) ELSE s

RECURSIVE RStrip(_)
RStrip(s) ==
    IF s # <<>> /\ s[Len(s)] \in Whitespace THEN RStrip(SubSeq(s, 1, Len(s) - 1)) ELSE s

\* str.strip()
Strip(s) == RStrip(LStrip(s))

\* ord() of the characters secrets are written with
Ord(c) ==
    CASE c = " " -> 32
      [] c = "\t" -> 9
      [] c = "p" -> 112
      [] c = "q" -> 113
      [] c = "s" -> 115
      [] c = "t" -> 116

\* str.encode("utf-8") for ASCII text: the bytes of the characters
Encode(s) == [i \in 1..Len(s) |-> Ord(s[i])]

Min(a, b) == IF a < b THEN a ELSE b
Max(a, b) == IF a > b THEN a ELSE b

\* Python slice bound: negative counts from the end, then clipped to [0, len]
ClipIndex(k, n) == IF k < 0 THEN Max(k + n, 0) ELSE Min(k, n)

\* text[a:b] with Python's 0-based half-open slice semantics
Slice(text, a, b) ==
    LET lo == ClipIndex(a, Len(text))
        hi == ClipIndex(b, Len(text))
    IN  IF lo < hi THEN SubSeq(text, lo + 1, hi) ELSE <<>>

\* text[a:]
SliceFrom(text, a) == Slice(text, a, Len(text))

\* the characters of a str as elements of a scrubbed string
Lits(s) == [i \in 1..Len(s) |-> [ch |-> s[i]]]

-----------------------------------------------------------------------------
(* Pre-filter regexes, as sets of positions an NFA can be at.  A position   *)
(* p in 1..Len(text)+1 means "the next character to read is text[p]".       *)

Lower == {"a", "b", "c", "d", "e", "f", "g", "h", "i", "j", "k", "l", "m",
          "n", "o", "p", "q", "r", "s", "t", "u", "v", "w", "x", "y", "z"}
Upper == {"A", "B", "C", "D", "E", "F", "G", "H", "I", "J", "K", "L", "M",
          "N", "O", "P", "Q", "R", "S", "T", "U", "V", "W", "X", "Y", "Z"}
Digit == {"0", "1", "2", "3", "4", "5", "6", "7", "8", "9"}
Alnum == Lower \cup Upper \cup Digit
\* (the regex also admits the backquote, which a TLA+ string cannot hold)
LocalChar == Alnum \cup {".", "!", "#", "$", "%", "&", "'", "*", "+", "/", "=",
                         "?", "^", "_", "{", "|", "}", "~", "-"}
SepChar == Whitespace \cup {"-"}

Positions(text) == 1..(Len(text) + 1)

\* class{lo,hi}: from each position of S read lo..hi characters of class
Rep(text, S, class, lo, hi) ==
    {j \in Positions(text) :
        \E i \in S : /\ j - i >= lo
                     /\ j - i <= hi
                     /\ \A k \in i..(j - 1) : text[k] \in class}

\* class?
Opt(text, S, class) == S \cup Rep(text, S, class, 1, 1)

LabelMiddleMax == 61

\* [a-zA-Z0-9](?:[a-zA-Z0-9-]{0,61}[a-zA-Z0-9])?
Label(text, S) ==
    LET first == Rep(text, S, Alnum, 1, 1)
    IN  first \cup
        Rep(text, Rep(text, first, Alnum \cup {"-"}, 0, LabelMiddleMax), Alnum, 1, 1)

\* _EMAIL_REGEX.search(text)
EmailSearch(text) ==
    LET local == Rep(text, Positions(text), LocalChar, 1, Len(text))
        at == Rep(text, local, {"@"}, 1, 1)
        host == Label(text, at)
        \* (?:\.label)+ : one round decides whether any number of rounds can match
        dom == Label(text, Rep(text, host, {"."}, 1, 1))
    IN  dom # {}

\* _PHONE_REGEX.search(text)
PhoneSearch(text) ==
    LET start == Positions(text)
        \* (?:\+?\d{1,3}[\s-]?)?
        prefix == start \cup
                  Opt(text, Rep(text, Opt(text, start, {"+"}), Digit, 1, 3), SepChar)
        \* \(?\d{2,4}\)?[\s-]?
        area == Opt(text, Opt(text, Rep(text, Opt(text, prefix, {"("}), Digit, 2, 4),
                              {")"}), SepChar)
        \* \d{3,4}[\s-]?
        mid == Opt(text, Rep(text, area, Digit, 3, 4), SepChar)
        \* \d{3,4}
        last == Rep(text, mid, Digit, 3, 4)
    IN  last # {}

\* the fast path taken out: every text goes to the detector
IsCandidateAlways(text) == TRUE

\* the fast-path condition of scrub
IsCandidate(text) == EmailSearch(text) \/ PhoneSearch(text)

-----------------------------------------------------------------------------
(* Salt and digest *)

\* the label formatted down to the day, "%Y-%m-%d"
YearMonthDay(ts) ==
    <<(ts \div TicksPerMonth) \div 12, ((ts \div TicksPerMonth) % 12) + 1,
      ts % TicksPerMonth>>

\* timestamp.astimezone(timezone.utc).strftime("%Y-%m"): the (year, month) label
YearMonth(ts) ==
    <<(ts \div TicksPerMonth) \div 12, ((ts \div TicksPerMonth) % 12) + 1>>

\* hmac.new(key, msg, sha256).hexdigest()
HmacHex(key, msg) == [hmac |-> <<key, msg>>]

\* hashlib.sha256(material).hexdigest()
Sha256Hex(material) == [sha256 |-> material]

\* the digest get_salt(timestamp) returns once the secret is known
SaltDigest(secret, ts) == HmacHex(secret, YearMonth(ts))

\* _hash_entity: sha256 over value + monthly_salt + pepper, in that order
HashEntity(value, salt, pepper) == Sha256Hex(Lits(value) \o <<salt>> \o Lits(pepper))

-----------------------------------------------------------------------------
(* Detected spans and the order scrub walks them in *)

Span(s, e) == [start |-> s, end |-> e]

\* the sort key of scrub: (r.start or 0, r.end or 0)
SortKey(r) == <<OrZero(r.start), OrZero(r.end)>>

KeyLess(a, b) == a[1] < b[1] \/ (a[1] = b[1] /\ a[2] < b[2])

\* x placed behind every element whose key is not greater (keeps sorted() stable)
RECURSIVE InsertSorted(_, _)
InsertSorted(rs, x) ==
    IF rs = <<>> THEN <<x>>
    ELSE IF KeyLess(SortKey(x), SortKey(rs[Len(rs)]))
         THEN Append(InsertSorted(SubSeq(rs, 1, Len(rs) - 1), x), rs[Len(rs)])
         ELSE Append(rs, x)

\* sorted(results, key=...)
RECURSIVE SortResults(_)
SortResults(rs) ==
    IF rs = <<>> THEN <<>>
    ELSE InsertSorted(SortResults(SubSeq(rs, 1, Len(rs) - 1)), rs[Len(rs)])

\* the overlap test written `<=`: a span starting where the last one ended is lost
SkippedTouching(res, cursor) ==
    \/ res.start = None
    \/ res.end = None
    \/ Get(res.start) <= cursor

\* the two `continue` conditions of the loop body
Skipped(res, cursor) ==
    \/ res.start = None
    \/ res.end = None
    \/ Get(res.start) < cursor

-----------------------------------------------------------------------------
(* Inputs *)

EnvVars == {"PII_PEPPER", "PII_SALT_SECRET"}

\* values a secret variable may be set to: blank, and two usable ones
EnvValues == {<<" ">>, <<"p">>, <<" ", "q">>}

Environments == UNION {[D -> EnvValues] : D \in SUBSET EnvVars}

EmailText == <<"a", "@", "a", ".", "a">>
PhoneText == <<"5", "5", "5", "1", "2", "3", "4", "5">>
PlainText == <<"h", "i">>
DigitsText == <<"1", "2", "3", "4", "5", "6", "7">>

\* texts callers pass: of the whole process, of concurrent callers, of one caller
Texts == {<<>>, PlainText, EmailText}
TextsGate == {<<>>, PlainText, DigitsText, EmailText, PhoneText}
TextsWide == {<<>>, PlainText, EmailText}

\* offsets a detector may report: in range, negative, past the end
Offsets == {0, 1}
OffsetsWide == {-1, 0, 1, 4, 5, 6}

Spans(offs) ==
    {Span(s, e) : s \in {None} \cup {Some(k) : k \in offs},
                  e \in {None} \cup {Some(k) : k \in offs}}

\* what analyzer.analyze may return: any list of at most n spans
Answers(offs, n) == UNION {[1..k -> Spans(offs)] : k \in 0..n}

-----------------------------------------------------------------------------
(* Frames *)

NoFrame ==
    [self |-> [pepper |-> None, analyzer |-> None],
     override |-> None,     \* __init__'s analyzer argument
     secret |-> None,       \* what _get_salt_secret has in hand
     ret |-> "none",        \* who called _get_salt_secret
     ts |-> 0,              \* get_salt's timestamp argument
     eng |-> 0,             \* the instance scrub runs on
     text |-> <<>>,
     answer |-> None,       \* what analyzer.analyze returned
     results |-> <<>>,
     i |-> 1,
     cursor |-> 0,
     parts |-> <<>>,
     \* what the call did, kept for the record:
     analyzed |-> 0,        \* analyzer.analyze invocations
     raised |-> FALSE,      \* analyzer.analyze raised
     accepted |-> <<>>,     \* indices of the results it replaced, in order
     times |-> {},          \* clock readings its digests were salted with
     keys |-> {},           \* salt secrets its digests were salted with
     cache |-> "unseen",    \* what `_SALT_SECRET is None` found: "hit" or "miss"
     log |-> <<>>,          \* its os.environ.get calls: <<name, value>>
     w0 |-> 0]              \* environment changes before it started

NoResult ==
    [call |-> "none", status |-> "none", value |-> None, f |-> NoFrame,
     env |-> <<>>, stable |-> TRUE]

\* the /analyze handler when no request is being handled
NoRequest ==
    [at |-> "none",                \* the handler's position
     prompt |-> <<>>,              \* analysis_request.prompt
     scrubber |-> 0,
     scrubbed_prompt |-> None,
     injection_score |-> 0,
     toxicity_score |-> 0,
     allowed |-> TRUE,
     reason |-> "none",
     response |-> "none",          \* "none", 200 body sent, or "raised"
     \* what the handler did for the request, kept for the record:
     redacted |-> None,            \* what scrub returned for the prompt
     scores |-> 0,                 \* _compute_langkit_scores invocations
     tasks |-> 0,                  \* background tasks enqueued
     counted |-> 0]                \* _BLOCKED_COUNTER.add(1) invocations

\* the locals a call starts with
NewFrame(call) == [NoFrame EXCEPT !.ret = call, !.w0 = writes]

\* os.environ.get(name)
EnvGet(name) == IF name \in DOMAIN environ THEN Some(environ[name]) ELSE None

\* the check without the trimming: a blank value passes
MissingUntrimmed(v) == v = None \/ Get(v) = <<>>

\* `v is None or not v.strip()`
Missing(v) == v = None \/ Strip(Get(v)) = <<>>

\* the call of thread t ends: it returns value, or raises when status is an exception
Finish(t, f, call, status, value) ==
    /\ pc' = [pc EXCEPT ![t] = "idle"]
    /\ frame' = [frame EXCEPT ![t] = NoFrame]
    /\ result' = [result EXCEPT ![t] =
                     [call |-> call, status |-> status, value |-> value, f |-> f,
                      \* os.environ as the call ends, and whether it was the
                      \* same all the while the call ran
                      env |-> environ, stable |-> writes = f.w0]]

\* the call of thread t moves on to `to` with locals f
Goto(t, f, to) ==
    /\ pc' = [pc EXCEPT ![t] = to]
    /\ frame' = [frame EXCEPT ![t] = f]
    /\ UNCHANGED result

\* where _get_salt_secret returns to
RetPc(ret) ==
    CASE ret = "ctor" -> "ctor_analyzer"
      [] ret = "get_salt" -> "gs_hmac"
      [] ret = "scrub" -> "scrub_loop"

Begin(t) ==
    /\ pc[t] = "idle"
    /\ calls < MaxCalls
    /\ calls' = calls + 1

\* a call starts with locals f at `to`; the caller drops its previous outcome
Enter(t, f, to) ==
    /\ Begin(t)
    /\ pc' = [pc EXCEPT ![t] = to]
    /\ frame' = [frame EXCEPT ![t] = f]
    /\ result' = [result EXCEPT ![t] = NoResult]

-----------------------------------------------------------------------------
(* The environment and the clock *)

SetEnv(name, value) ==
    /\ writes < MaxEnvWrites
    /\ writes' = writes + 1
    /\ environ' = [n \in DOMAIN environ \cup {name} |->
                      IF n = name THEN value ELSE environ[n]]
    /\ environ' # environ
    /\ UNCHANGED <<_SALT_SECRET, _DEFAULT_ANALYZER, built, now, engines,
                   pc, frame, result, reads, calls>>

UnsetEnv(name) ==
    /\ writes < MaxEnvWrites
    /\ name \in DOMAIN environ
    /\ writes' = writes + 1
    /\ environ' = [n \in DOMAIN environ \ {name} |-> environ[n]]
    /\ UNCHANGED <<_SALT_SECRET, _DEFAULT_ANALYZER, built, now, engines,
                   pc, frame, result, reads, calls>>

Tick ==
    /\ now < MaxNow
    /\ now' = now + 1
    /\ UNCHANGED <<environ, _SALT_SECRET, _DEFAULT_ANALYZER, built, engines,
                   pc, frame, result, reads, calls, writes>>

-----------------------------------------------------------------------------
(* PIIScrubber.__init__ *)

\* a caller invokes PIIScrubber(analyzer=override)
CtorBegin(t, override) ==
    /\ Enter(t, [NewFrame("ctor") EXCEPT !.override = override], "ctor_pepper")
    /\ UNCHANGED <<environ, _SALT_SECRET, _DEFAULT_ANALYZER, built, now, engines,
                   reads, writes>>

\* __init__ without its _get_salt_secret() call: the secret is left to first use
LoadPepperLazy(t) ==
    /\ pc[t] = "ctor_pepper"
    /\ LET pepper == EnvGet("PII_PEPPER")
           f == [frame[t] EXCEPT !.log = Append(@, <<"PII_PEPPER", pepper>>)]
       IN  /\ reads' = [reads EXCEPT !["PII_PEPPER"] = Append(@, pepper)]
           /\ IF Missing(pepper)
              THEN Finish(t, f, "ctor", "ValueError", None)
              ELSE Goto(t, [f EXCEPT !.self.pepper = pepper], "ctor_analyzer")
    /\ UNCHANGED <<environ, _SALT_SECRET, _DEFAULT_ANALYZER, built, now, engines,
                   calls, writes>>

\* self._pepper = _load_pepper_from_env()
LoadPepper(t) ==
    /\ pc[t] = "ctor_pepper"
    /\ LET pepper == EnvGet("PII_PEPPER")
           f == [frame[t] EXCEPT !.log = Append(@, <<"PII_PEPPER", pepper>>)]
       IN  /\ reads' = [reads EXCEPT !["PII_PEPPER"] = Append(@, pepper)]
           /\ IF Missing(pepper)
              THEN Finish(t, f, "ctor", "ValueError", None)
              ELSE Goto(t, [f EXCEPT !.self.pepper = pepper], "salt_check")
    /\ UNCHANGED <<environ, _SALT_SECRET, _DEFAULT_ANALYZER, built, now, engines,
                   calls, writes>>

\* _get_salt_secret: `if _SALT_SECRET is None`, and the return of a cached secret
SaltCheck(t) ==
    /\ pc[t] = "salt_check"
    /\ IF _SALT_SECRET = None
       THEN Goto(t, [frame[t] EXCEPT !.cache = "miss"], "salt_load")
       ELSE Goto(t, [frame[t] EXCEPT !.secret = _SALT_SECRET, !.cache = "hit"],
                 RetPc(frame[t].ret))
    /\ UNCHANGED <<environ, _SALT_SECRET, _DEFAULT_ANALYZER, built, now, engines,
                   reads, calls, writes>>

\* the value read kept in _SALT_SECRET before it is validated
SaltLoadCacheFirst(t) ==
    /\ pc[t] = "salt_load"
    /\ LET secret == EnvGet("PII_SALT_SECRET")
           f == [frame[t] EXCEPT !.log = Append(@, <<"PII_SALT_SECRET", secret>>)]
       IN  /\ reads' = [reads EXCEPT !["PII_SALT_SECRET"] = Append(@, secret)]
           /\ _SALT_SECRET' = IF secret = None THEN None
                               ELSE Some(Encode(Get(secret)))
           /\ IF Missing(secret)
              THEN Finish(t, f, f.ret, "ValueError", None)
              ELSE Goto(t, [f EXCEPT !.secret = Some(Encode(Get(secret)))], "salt_store")
    /\ UNCHANGED <<environ, _DEFAULT_ANALYZER, built, now, engines, calls, writes>>

\* _load_salt_secret_from_env()
SaltLoad(t) ==
    /\ pc[t] = "salt_load"
    /\ LET secret == EnvGet("PII_SALT_SECRET")
           f == [frame[t] EXCEPT !.log = Append(@, <<"PII_SALT_SECRET", secret>>)]
       IN  /\ reads' = [reads EXCEPT !["PII_SALT_SECRET"] = Append(@, secret)]
           /\ IF Missing(secret)
              THEN Finish(t, f, f.ret, "ValueError", None)
              ELSE Goto(t, [f EXCEPT !.secret = Some(Encode(Get(secret)))], "salt_store")
    /\ UNCHANGED <<environ, _SALT_SECRET, _DEFAULT_ANALYZER, built, now, engines,
                   calls, writes>>

\* the loaded secret returned without being kept in _SALT_SECRET
SaltStoreNoCache(t) ==
    /\ pc[t] = "salt_store"
    /\ Goto(t, frame[t], RetPc(frame[t].ret))
    /\ UNCHANGED <<environ, _SALT_SECRET, _DEFAULT_ANALYZER, built, now, engines,
                   reads, calls, writes>>

\* _SALT_SECRET = <the loaded secret>; return _SALT_SECRET
SaltStore(t) ==
    /\ pc[t] = "salt_store"
    /\ _SALT_SECRET' = frame[t].secret
    /\ Goto(t, frame[t], RetPc(frame[t].ret))
    /\ UNCHANGED <<environ, _DEFAULT_ANALYZER, built, now, engines,
                   reads, calls, writes>>

\* __init__ returns: the caller now holds the instance
Publish(t, f) ==
    /\ engines' = Append(engines, f.self)
    /\ Finish(t, f, "ctor", "ok", Some(Len(engines) + 1))

\* self._analyzer = analyzer or _get_default_analyzer(), up to `is None`
CtorAnalyzer(t) ==
    /\ pc[t] = "ctor_analyzer"
    /\ IF frame[t].override # None
       THEN Publish(t, [frame[t] EXCEPT !.self.analyzer = frame[t].override])
       ELSE IF _DEFAULT_ANALYZER # None
            THEN Publish(t, [frame[t] EXCEPT !.self.analyzer = _DEFAULT_ANALYZER])
            ELSE Goto(t, frame[t], "analyzer_new") /\ UNCHANGED engines
    /\ UNCHANGED <<environ, _SALT_SECRET, _DEFAULT_ANALYZER, built, now,
                   reads, calls, writes>>

\* _DEFAULT_ANALYZER = AnalyzerEngine(); return _DEFAULT_ANALYZER
AnalyzerNew(t) ==
    /\ pc[t] = "analyzer_new"
    /\ built' = built + 1
    /\ _DEFAULT_ANALYZER' = Some(built + 1)
    /\ Publish(t, [frame[t] EXCEPT !.self.analyzer = Some(built + 1)])
    /\ UNCHANGED <<environ, _SALT_SECRET, now, reads, calls, writes>>

-----------------------------------------------------------------------------
(* get_salt *)

\* a caller invokes get_salt(ts)
GetSaltBegin(t, ts) ==
    /\ Enter(t, [NewFrame("get_salt") EXCEPT !.ts = ts], "salt_check")
    /\ UNCHANGED <<environ, _SALT_SECRET, _DEFAULT_ANALYZER, built, now, engines,
                   reads, writes>>

\* digest = hmac.new(secret, year_month, sha256).hexdigest(); return digest
GetSaltEnd(t) ==
    /\ pc[t] = "gs_hmac"
    /\ Finish(t, frame[t], "get_salt", "ok",
              Some(SaltDigest(Get(frame[t].secret), frame[t].ts)))
    /\ UNCHANGED <<environ, _SALT_SECRET, _DEFAULT_ANALYZER, built, now, engines,
                   reads, calls, writes>>

-----------------------------------------------------------------------------
(* PIIScrubber.scrub *)

\* a caller invokes engines[e].scrub(text): the two gates in front of the detector
ScrubBegin(t, e, text) ==
    /\ e \in 1..Len(engines)
    /\ Begin(t)
    /\ LET f == [NewFrame("scrub") EXCEPT !.eng = e, !.text = text]
       IN  IF text = <<>> \/ ~IsCandidate(text)
           THEN Finish(t, f, "scrub", "ok", Some(Lits(text)))
           ELSE /\ pc' = [pc EXCEPT ![t] = "scrub_analyze"]
                /\ frame' = [frame EXCEPT ![t] = f]
                /\ result' = [result EXCEPT ![t] = NoResult]
    /\ UNCHANGED <<environ, _SALT_SECRET, _DEFAULT_ANALYZER, built, now, engines,
                   reads, writes>>

\* the detector call wrapped in `except Exception: return text`
ScrubAnalyzeSwallow(t, offs, n) ==
    /\ pc[t] = "scrub_analyze"
    /\ LET f == [frame[t] EXCEPT !.analyzed = @ + 1]
       IN  \/ Finish(t, [f EXCEPT !.raised = TRUE], "scrub", "ok", Some(Lits(f.text)))
           \/ \E a \in Answers(offs, n) :
                IF a = <<>>
                THEN Finish(t, [f EXCEPT !.answer = Some(a)], "scrub", "ok",
                            Some(Lits(f.text)))
                ELSE Goto(t, [f EXCEPT !.answer = Some(a), !.results = SortResults(a)],
                          "scrub_loop")
    /\ UNCHANGED <<environ, _SALT_SECRET, _DEFAULT_ANALYZER, built, now, engines,
                   reads, calls, writes>>

\* results = self._analyzer.analyze(...); `if not results: return text`; sorted(...)
ScrubAnalyze(t, offs, n) ==
    /\ pc[t] = "scrub_analyze"
    /\ LET f == [frame[t] EXCEPT !.analyzed = @ + 1]
       IN  \/ Finish(t, [f EXCEPT !.raised = TRUE], "scrub", "AnalyzerError", None)
           \/ \E a \in Answers(offs, n) :
                IF a = <<>>
                THEN Finish(t, [f EXCEPT !.answer = Some(a)], "scrub", "ok",
                            Some(Lits(f.text)))
                ELSE Goto(t, [f EXCEPT !.answer = Some(a), !.results = SortResults(a)],
                          "scrub_loop")
    /\ UNCHANGED <<environ, _SALT_SECRET, _DEFAULT_ANALYZER, built, now, engines,
                   reads, calls, writes>>

\* one pass of the loop body for results[i], the digest made with `salt`
LoopBody(f, salt, pepper) ==
    LET res == f.results[f.i]
    IN  IF Skipped(res, f.cursor)
        THEN [f EXCEPT !.i = @ + 1]
        ELSE [f EXCEPT
                !.parts = @ \o Lits(Slice(f.text, f.cursor, Get(res.start)))
                            \o <<HashEntity(Slice(f.text, Get(res.start), Get(res.end)),
                                            salt, pepper)>>,
                !.cursor = Get(res.end),
                !.accepted = Append(@, f.i),
                !.i = @ + 1]

\* scrubbed_parts.append(text[cursor:]); return "".join(scrubbed_parts)
Joined(f) == f.parts \o Lits(SliceFrom(f.text, f.cursor))

\* the loop run from f to its end with one salt
RECURSIVE Walk(_, _, _)
Walk(f, salt, pepper) ==
    IF f.i > Len(f.results) THEN f ELSE Walk(LoopBody(f, salt, pepper), salt, pepper)

\* what scrub returns for a detector answer when every digest is made with `salt`
Resolve(text, answer, salt, pepper) ==
    IF answer = <<>>
    THEN Lits(text)
    ELSE Joined(Walk([NoFrame EXCEPT !.text = text, !.results = SortResults(answer)],
                     salt, pepper))

\* the loop moves on to the next result, or ends and scrub returns
LoopNext(t, f) ==
    IF f.i > Len(f.results)
    THEN Finish(t, f, "scrub", "ok", Some(Joined(f)))
    ELSE Goto(t, f, "scrub_loop")

\* the loop with the monthly salt memoized on the instance by _hash_entity
ScrubLoopMemo(t) ==
    /\ pc[t] = "scrub_loop"
    /\ LET f == frame[t]
           res == f.results[f.i]
           ts == IF f.secret # None THEN f.ts ELSE now
           key == IF f.secret # None THEN f.secret ELSE _SALT_SECRET
           e == engines[f.eng]
       IN  IF Skipped(res, f.cursor)
           THEN LoopNext(t, LoopBody(f, None, None)) /\ UNCHANGED engines
           ELSE IF key = None
                THEN /\ Goto(t, [f EXCEPT !.ts = now, !.cache = "miss"], "salt_load")
                     /\ UNCHANGED engines
                ELSE LET salt == IF "salt" \in DOMAIN e THEN e.salt
                                 ELSE SaltDigest(Get(key), ts)
                     IN  /\ engines' = [engines EXCEPT ![f.eng] =
                                           [pepper |-> e.pepper, analyzer |-> e.analyzer,
                                            salt |-> salt]]
                         /\ LoopNext(t, [LoopBody(f, salt, Get(e.pepper))
                                            EXCEPT !.secret = None,
                                                   !.times = @ \cup {ts},
                                                   !.keys = @ \cup {Get(key)}])
    /\ UNCHANGED <<environ, _SALT_SECRET, _DEFAULT_ANALYZER, built, now,
                   reads, calls, writes>>

\* the loop with the salt of the whole call fixed by its first digest
ScrubLoopPerCall(t) ==
    /\ pc[t] = "scrub_loop"
    /\ LET f == frame[t]
           res == f.results[f.i]
           ts == IF f.times # {} THEN CHOOSE x \in f.times : TRUE
                 ELSE IF f.secret # None THEN f.ts ELSE now
           key == IF f.secret # None THEN f.secret ELSE _SALT_SECRET
       IN  IF Skipped(res, f.cursor)
           THEN LoopNext(t, LoopBody(f, None, None))
           ELSE IF key = None
                THEN Goto(t, [f EXCEPT !.ts = now, !.cache = "miss"], "salt_load")
                ELSE LoopNext(t, [LoopBody(f, SaltDigest(Get(key), ts),
                                           Get(engines[f.eng].pepper))
                                    EXCEPT !.secret = None,
                                           !.times = @ \cup {ts},
                                           !.keys = @ \cup {Get(key)}])
    /\ UNCHANGED <<environ, _SALT_SECRET, _DEFAULT_ANALYZER, built, now, engines,
                   reads, calls, writes>>

\* one iteration of `for res in results`, with _hash_entity and get_salt inside
ScrubLoop(t) ==
    /\ pc[t] = "scrub_loop"
    /\ LET f == frame[t]
           res == f.results[f.i]
           ts == IF f.secret # None THEN f.ts ELSE now
           key == IF f.secret # None THEN f.secret ELSE _SALT_SECRET
       IN  IF Skipped(res, f.cursor)
           THEN LoopNext(t, LoopBody(f, None, None))
           ELSE IF key = None
                THEN \* datetime.now() is taken, then _get_salt_secret has to load
                     Goto(t, [f EXCEPT !.ts = now, !.cache = "miss"], "salt_load")
                ELSE LoopNext(t, [LoopBody(f, SaltDigest(Get(key), ts),
                                           Get(engines[f.eng].pepper))
                                    EXCEPT !.secret = None,
                                           !.times = @ \cup {ts},
                                           !.keys = @ \cup {Get(key)}])
    /\ UNCHANGED <<environ, _SALT_SECRET, _DEFAULT_ANALYZER, built, now, engines,
                   reads, calls, writes>>

-----------------------------------------------------------------------------
(* main.py: the /analyze handler.  It is an `async def` without an await, so *)
(* the event loop runs one request at a time, on thread t; the background    *)
(* tasks run off that thread.  Scores are in hundredths.                     *)

\* `threshold = 0.8`
threshold == 80

\* what _compute_langkit_scores can return for one score: the threshold itself and a
\* value above it
Scores == {80, 90}

\* a payload handed to why.log by fn
Payload(fn, prompt, injection, toxicity) ==
    [fn |-> fn, prompt |-> prompt, injection |-> injection, toxicity |-> toxicity]

\* the handler raises: the request ends without a response body
Raise == request' = [request EXCEPT !.at = "none", !.response = "raised"]

\* a request arrives: `if _PIISCRUBBER is None: scrubber = PIIScrubber()`,
\* else `scrubber = _PIISCRUBBER` and scrubber.scrub(prompt) is called
AnalyzeBegin(t, prompt) ==
    /\ request.at = "none"
    /\ IF _PIISCRUBBER = None
       THEN /\ CtorBegin(t, None)
            /\ request' = [NoRequest EXCEPT !.at = "ctor", !.prompt = prompt]
       ELSE /\ ScrubBegin(t, Get(_PIISCRUBBER), prompt)
            /\ request' = [NoRequest EXCEPT !.at = "scrub", !.prompt = prompt,
                                            !.scrubber = Get(_PIISCRUBBER)]
    /\ UNCHANGED <<_PIISCRUBBER, _BLOCKED_COUNTER, background_tasks, whylogs>>

\* the on-demand PIIScrubber() has returned or raised; scrubber.scrub(prompt)
AnalyzeConstructed(t) ==
    /\ request.at = "ctor"
    /\ pc[t] = "idle"
    /\ result[t].call = "ctor"
    /\ IF result[t].status = "ok"
       THEN /\ ScrubBegin(t, Get(result[t].value), request.prompt)
            /\ request' = [request EXCEPT !.at = "scrub",
                                          !.scrubber = Get(result[t].value)]
       ELSE /\ Raise
            /\ UNCHANGED <<environ, _SALT_SECRET, _DEFAULT_ANALYZER, built, now,
                           engines, pc, frame, result, reads, calls, writes>>
    /\ UNCHANGED <<_PIISCRUBBER, _BLOCKED_COUNTER, background_tasks, whylogs>>

\* the handler keeps the raw prompt where the scrubbed one belongs
AnalyzeScrubbedRaw(t) ==
    /\ request.at = "scrub"
    /\ pc[t] = "idle"
    /\ result[t].call = "scrub"
    /\ IF result[t].status = "ok"
       THEN request' = [request EXCEPT !.at = "score",
                                       !.scrubbed_prompt = Some(Lits(request.prompt)),
                                       !.redacted = result[t].value]
       ELSE Raise
    /\ UNCHANGED <<environ, _SALT_SECRET, _DEFAULT_ANALYZER, built, now, engines,
                   pc, frame, result, reads, calls, writes>>
    /\ UNCHANGED <<_PIISCRUBBER, _BLOCKED_COUNTER, background_tasks, whylogs>>

\* scrubbed_prompt = scrubber.scrub(analysis_request.prompt) has returned or raised
AnalyzeScrubbed(t) ==
    /\ request.at = "scrub"
    /\ pc[t] = "idle"
    /\ result[t].call = "scrub"
    /\ IF result[t].status = "ok"
       THEN request' = [request EXCEPT !.at = "score",
                                       !.scrubbed_prompt = result[t].value,
                                       !.redacted = result[t].value]
       ELSE Raise
    /\ UNCHANGED <<environ, _SALT_SECRET, _DEFAULT_ANALYZER, built, now, engines,
                   pc, frame, result, reads, calls, writes>>
    /\ UNCHANGED <<_PIISCRUBBER, _BLOCKED_COUNTER, background_tasks, whylogs>>

\* injection_score, toxicity_score = _compute_langkit_scores(scrubbed_prompt),
\* which hands {"prompt": scrubbed_prompt} to why.log
AnalyzeScore(injection, toxicity) ==
    /\ request.at = "score"
    /\ whylogs' = Append(whylogs, Payload("_compute_langkit_scores",
                                          Get(request.scrubbed_prompt), 0, 0))
    /\ request' = [request EXCEPT !.at = "verdict",
                                  !.injection_score = injection,
                                  !.toxicity_score = toxicity,
                                  !.scores = @ + 1]
    /\ UNCHANGED <<environ, _SALT_SECRET, _DEFAULT_ANALYZER, built, now, engines,
                   pc, frame, result, reads, calls, writes>>
    /\ UNCHANGED <<_PIISCRUBBER, _BLOCKED_COUNTER, background_tasks>>

\* the verdict with `>=` in place of `>`
Exceeds(score) == score >= threshold

\* `score > threshold`
Blocked(score) == score > threshold

\* the guardrail decision, the blocked counter, the background task and the
\* response; _BLOCKED_COUNTER.add(1) may raise, which is swallowed
AnalyzeVerdict(added) ==
    /\ request.at = "verdict"
    /\ LET allowed == ~(Blocked(request.injection_score) \/ Blocked(request.toxicity_score))
           count == ~allowed /\ _BLOCKED_COUNTER # None
       IN  /\ _BLOCKED_COUNTER' = IF count /\ added
                                  THEN Some(Get(_BLOCKED_COUNTER) + 1)
                                  ELSE _BLOCKED_COUNTER
           /\ ~count => added
           /\ request' = [request EXCEPT !.at = "none",
                             !.allowed = allowed,
                             !.reason = IF allowed THEN "Allowed" ELSE "Security Risk",
                             !.response = "200",
                             !.counted = IF count THEN @ + 1 ELSE @,
                             !.tasks = @ + 1]
    /\ background_tasks' = Append(background_tasks,
                                  Payload("_log_to_whylogs", Get(request.scrubbed_prompt),
                                          request.injection_score, request.toxicity_score))
    /\ UNCHANGED <<environ, _SALT_SECRET, _DEFAULT_ANALYZER, built, now, engines,
                   pc, frame, result, reads, calls, writes>>
    /\ UNCHANGED <<_PIISCRUBBER, whylogs>>

\* _log_to_whylogs runs: why.log(payload)
RunTask ==
    /\ background_tasks # <<>>
    /\ whylogs' = Append(whylogs, Head(background_tasks))
    /\ background_tasks' = Tail(background_tasks)
    /\ UNCHANGED <<environ, _SALT_SECRET, _DEFAULT_ANALYZER, built, now, engines,
                   pc, frame, result, reads, calls, writes>>
    /\ UNCHANGED <<_PIISCRUBBER, _BLOCKED_COUNTER, request>>

-----------------------------------------------------------------------------
(* tests/utils/canonicalize.py: JSON-like values.  Every value is a record   *)
(* tagged with its Python type; a dict is its items in insertion order, its  *)
(* keys strings; a float is a sign and a number of halves, so that 1.0, 0.5  *)
(* and -0.0 are floats apart from the ints 1 and 0.                          *)

JNull == [type |-> "NoneType"]
JBool(b) == [type |-> "bool", b |-> b]
JInt(n) == [type |-> "int", n |-> n]
JFloat(neg, halves) == [type |-> "float", neg |-> neg, halves |-> halves]
JStr(s) == [type |-> "str", s |-> s]
JList(items) == [type |-> "list", items |-> items]
JTuple(items) == [type |-> "tuple", items |-> items]
JDict(items) == [type |-> "dict", pairs |-> items]

\* float.is_integer()
IsInteger(x) == x.halves % 2 = 0

\* int(x) of a float: truncation, and int(-0.0) is 0
IntOf(x) == IF x.neg THEN 0 - (x.halves \div 2) ELSE x.halves \div 2

\* the printable ASCII characters from " " (32) to "_" (95), and from "a" (97)
\* to "~" (126)
AsciiLow ==
    <<" ", "!", "\"", "#", "$", "%", "&", "'", "(", ")", "*", "+", ",", "-", ".", "/",
      "0", "1", "2", "3", "4", "5", "6", "7", "8", "9", ":", ";", "<", "=", ">", "?",
      "@", "A", "B", "C", "D", "E", "F", "G", "H", "I", "J", "K", "L", "M", "N", "O",
      "P", "Q", "R", "S", "T", "U", "V", "W", "X", "Y", "Z", "[", "\\", "]", "^", "_">>
AsciiHigh ==
    <<"a", "b", "c", "d", "e", "f", "g", "h", "i", "j", "k", "l", "m", "n", "o",
      "p", "q", "r", "s", "t", "u", "v", "w", "x", "y", "z", "{", "|", "}", "~">>

\* ord(c)
CodePoint(c) ==
    IF \E i \in 1..Len(AsciiLow) : AsciiLow[i] = c
    THEN 31 + (CHOOSE i \in 1..Len(AsciiLow) : AsciiLow[i] = c)
    ELSE 96 + (CHOOSE i \in 1..Len(AsciiHigh) : AsciiHigh[i] = c)

\* str.encode("utf-8") of ASCII text
Utf8(s) == [i \in 1..Len(s) |-> CodePoint(s[i])]

\* a < b for two str: by code points, a proper prefix first
RECURSIVE StrLess(_, _)
StrLess(a, b) ==
    IF b = <<>> THEN FALSE
    ELSE IF a = <<>> THEN TRUE
    ELSE IF Head(a) = Head(b) THEN StrLess(Tail(a), Tail(b))
    ELSE CodePoint(Head(a)) < CodePoint(Head(b))

-----------------------------------------------------------------------------
(* _normalize_string: the two regex substitutions *)

Hex == Digit \cup {"a", "b", "c", "d", "e", "f", "A", "B", "C", "D", "E", "F"}

\* \w
WordChar == Alnum \cup {"_"}

\* \b at position p: exactly one of text[p-1], text[p] is a word character
Boundary(text, p) ==
    LET before == p > 1 /\ text[p - 1] \in WordChar
        after == p <= Len(text) /\ text[p] \in WordChar
    IN  before # after

\* where a match of _UUID_REGEX starting at position i ends; {} when there is none
UuidEnds(text, i) ==
    LET a == Rep(text, Rep(text, {i}, Hex, 8, 8), {"-"}, 1, 1)
        b == Rep(text, Rep(text, a, Hex, 4, 4), {"-"}, 1, 1)
        c == Rep(text, Rep(text, Rep(text, b, {"1", "2", "3", "4", "5"}, 1, 1), Hex, 3, 3),
                 {"-"}, 1, 1)
        d == Rep(text, Rep(text, Rep(text, c, {"8", "9", "a", "b", "A", "B"}, 1, 1), Hex, 3, 3),
                 {"-"}, 1, 1)
        e == Rep(text, d, Hex, 12, 12)
    IN  IF Boundary(text, i) THEN {j \in e : Boundary(text, j)} ELSE {}

\* \d{2} behind one character of class
TwoDigits(text, S, class) == Rep(text, Rep(text, S, class, 1, 1), Digit, 2, 2)

\* where a match of _ISO_DATE_REGEX starting at position i can end
DateEnds(text, i) ==
    LET date == TwoDigits(text, TwoDigits(text, Rep(text, {i}, Digit, 4, 4), {"-"}), {"-"})
        time == TwoDigits(text, TwoDigits(text, TwoDigits(text, date, {"T", " "}), {":"}), {":"})
        frac == Rep(text, Rep(text, time, {"."}, 1, 1), Digit, 1, Len(text))
        zone == Rep(text, time \cup frac, {"Z"}, 1, 1)
                \cup TwoDigits(text, TwoDigits(text, time \cup frac, {"+", "-"}), {":"})
    IN  IF Boundary(text, i)
        THEN {j \in date \cup time \cup frac \cup zone : Boundary(text, j)}
        ELSE {}

\* the end the regex engine settles on: its greedy groups take the longest match
Longest(S) == CHOOSE j \in S : \A k \in S : k <= j

\* _UUID_REGEX.sub("<UUID>", value), scanning from position i
RECURSIVE UuidSub(_, _)
UuidSub(text, i) ==
    IF i > Len(text) THEN <<>>
    ELSE IF UuidEnds(text, i) # {}
         THEN <<"<", "U", "U", "I", "D", ">">> \o UuidSub(text, Longest(UuidEnds(text, i)))
         ELSE <<text[i]>> \o UuidSub(text, i + 1)

\* _ISO_DATE_REGEX.sub("<DATE>", value), scanning from position i
RECURSIVE DateSub(_, _)
DateSub(text, i) ==
    IF i > Len(text) THEN <<>>
    ELSE IF DateEnds(text, i) # {}
         THEN <<"<", "D", "A", "T", "E", ">">> \o DateSub(text, Longest(DateEnds(text, i)))
         ELSE <<text[i]>> \o DateSub(text, i + 1)

\* _normalize_string(value)
NormalizeString(value) == DateSub(UuidSub(value, 1), 1)

-----------------------------------------------------------------------------
(* _normalize, json.dumps, to_canonical_json, get_deterministic_hash *)

\* the item placed in front of the first item with a greater key
RECURSIVE InsertItem(_, _)
InsertItem(items, x) ==
    IF items = <<>> THEN <<x>>
    ELSE IF StrLess(x[1], Head(items)[1])
         THEN <<x>> \o items
         ELSE <<Head(items)>> \o InsertItem(Tail(items), x)

\* the items of a dict in the order of sorted(value.keys())
RECURSIVE SortedItems(_)
SortedItems(items) ==
    IF items = <<>> THEN <<>>
    ELSE InsertItem(SortedItems(SubSeq(items, 1, Len(items) - 1)), items[Len(items)])

\* _normalize without its float branch: 1.0 stays a float
RECURSIVE NormalizeKeepFloat(_)
NormalizeKeepFloat(value) ==
    CASE value.type = "dict" ->
            JDict([i \in 1..Len(value.pairs) |->
                     <<SortedItems(value.pairs)[i][1],
                       NormalizeKeepFloat(SortedItems(value.pairs)[i][2])>>])
      [] value.type = "list" ->
            JList([i \in 1..Len(value.items) |-> NormalizeKeepFloat(value.items[i])])
      [] value.type = "tuple" ->
            JTuple([i \in 1..Len(value.items) |-> NormalizeKeepFloat(value.items[i])])
      [] value.type = "str" -> JStr(NormalizeString(value.s))
      [] OTHER -> value

\* _normalize(value)
RECURSIVE Normalize(_)
Normalize(value) ==
    CASE value.type = "dict" ->
            JDict([i \in 1..Len(value.pairs) |->
                     <<SortedItems(value.pairs)[i][1],
                       Normalize(SortedItems(value.pairs)[i][2])>>])
      [] value.type = "list" ->
            JList([i \in 1..Len(value.items) |-> Normalize(value.items[i])])
      [] value.type = "tuple" ->
            JTuple([i \in 1..Len(value.items) |-> Normalize(value.items[i])])
      [] value.type = "str" -> JStr(NormalizeString(value.s))
      [] value.type = "float" -> IF IsInteger(value) THEN JInt(IntOf(value)) ELSE value
      [] OTHER -> value

\* the decimal digits of a natural number
RECURSIVE Decimal(_)
Decimal(n) ==
    IF n < 10 THEN <<AsciiLow[17 + n]>> ELSE Decimal(n \div 10) \o <<AsciiLow[17 + (n % 10)]>>

\* int.__repr__
IntRepr(n) == IF n < 0 THEN <<"-">> \o Decimal(0 - n) ELSE Decimal(n)

\* float.__repr__ of a number of halves: "1.0", "-0.0", "0.5"
FloatRepr(x) ==
    (IF x.neg THEN <<"-">> ELSE <<>>)
    \o Decimal(x.halves \div 2)
    \o (IF IsInteger(x) THEN <<".", "0">> ELSE <<".", "5">>)

\* a str as a JSON string, ensure_ascii=False
RECURSIVE Escaped(_)
Escaped(str) ==
    IF str = <<>> THEN <<>>
    ELSE (CASE Head(str) = "\"" -> <<"\\", "\"">>
            [] Head(str) = "\\" -> <<"\\", "\\">>
            [] Head(str) = "\n" -> <<"\\", "n">>
            [] Head(str) = "\t" -> <<"\\", "t">>
            [] Head(str) = "\r" -> <<"\\", "r">>
            [] OTHER -> <<Head(str)>>) \o Escaped(Tail(str))

Quoted(str) == <<"\"">> \o Escaped(str) \o <<"\"">>

\* the parts joined by the item separator ","
RECURSIVE Joint(_)
Joint(parts) ==
    IF parts = <<>> THEN <<>>
    ELSE IF Len(parts) = 1 THEN parts[1]
    ELSE parts[1] \o <<",">> \o Joint(Tail(parts))

\* json.dumps(value, separators=(",", ":"), sort_keys=True, ensure_ascii=False)
RECURSIVE Dumps(_)
Dumps(value) ==
    CASE value.type = "NoneType" -> <<"n", "u", "l", "l">>
      [] value.type = "bool" ->
            IF value.b THEN <<"t", "r", "u", "e">> ELSE <<"f", "a", "l", "s", "e">>
      [] value.type = "int" -> IntRepr(value.n)
      [] value.type = "float" -> FloatRepr(value)
      [] value.type = "str" -> Quoted(value.s)
      [] value.type \in {"list", "tuple"} ->
            <<"[">> \o Joint([i \in 1..Len(value.items) |-> Dumps(value.items[i])]) \o <<"]">>
      [] value.type = "dict" ->
            <<"{">>
            \o Joint([i \in 1..Len(value.pairs) |->
                        Quoted(SortedItems(value.pairs)[i][1]) \o <<":">>
                        \o Dumps(SortedItems(value.pairs)[i][2])])
            \o <<"}">>

\* to_canonical_json(payload)
ToCanonicalJson(value) == Dumps(Normalize(value))

\* get_deterministic_hash(payload)
GetDeterministicHash(value) == Sha256Hex(Utf8(ToCanonicalJson(value)))

-----------------------------------------------------------------------------
(* Payloads of the canonicalization tests, and the ways of writing one       *)
(* payload differently: another insertion order of a dict's keys, a whole    *)
(* number as a float or as an int                                            *)

UuidText ==
    <<"1", "2", "3", "e", "4", "5", "6", "7", "-", "e", "8", "9", "b", "-",
      "1", "2", "d", "3", "-", "a", "4", "5", "6", "-",
      "4", "2", "6", "6", "1", "4", "1", "7", "4", "0", "0", "0">>

DateText ==
    <<"2", "0", "2", "4", "-", "0", "1", "-", "0", "1", "T", "1", "0", ":", "0", "0",
      ":", "0", "0", "Z">>

\* the payloads the tests start from
Payloads ==
    <<  \* {"val": 1}
        JDict(<< <<<<"v", "a", "l">>, JInt(1)>> >>),
        \* {"b": 1, "a": {"d": 2.0, "c": [1.0, 0.5, -0.0]}}
        JDict(<< <<<<"b">>, JInt(1)>>,
                 <<<<"a">>, JDict(<< <<<<"d">>, JFloat(FALSE, 4)>>,
                                     <<<<"c">>, JList(<<JFloat(FALSE, 2), JFloat(FALSE, 1),
                                                        JFloat(TRUE, 0)>>)>> >>)>> >>),
        \* {"t": (1, "<date>"), "id": "<uuid>"}
        JDict(<< <<<<"t">>, JTuple(<<JInt(1), JStr(DateText)>>)>>,
                 <<<<"i", "d">>, JStr(UuidText)>> >>),
        \* {"k": -2, "s": "x <date>", "n": None, "ok": True}
        JDict(<< <<<<"k">>, JInt(-2)>>,
                 <<<<"s">>, JStr(<<"x", " ">> \o DateText)>>,
                 <<<<"n">>, JNull>>,
                 <<<<"o", "k">>, JBool(TRUE)>> >>),
        \* {"z": [{"y": 1, "x": 10}], "Z": "a\"b"}
        JDict(<< <<<<"z">>, JList(<<JDict(<< <<<<"y">>, JInt(1)>>,
                                             <<<<"x">>, JInt(10)>> >>)>>)>>,
                 <<<<"Z">>, JStr(<<"a", "\"", "b">>)>> >>) >>

\* items i and i + 1 of a dict inserted in the other order
Swapped(pairs, i) == [pairs EXCEPT ![i] = pairs[i + 1], ![i + 1] = pairs[i]]

\* value with two neighbouring keys of one of its dicts, at any depth, inserted
\* in the other order
RECURSIVE Reorderings(_)
Reorderings(value) ==
    CASE value.type = "dict" ->
            {JDict(Swapped(value.pairs, i)) : i \in 1..(Len(value.pairs) - 1)}
            \cup UNION {{JDict([value.pairs EXCEPT ![i] = <<@[1], w>>]) :
                            w \in Reorderings(value.pairs[i][2])} :
                        i \in 1..Len(value.pairs)}
      [] value.type = "list" ->
            UNION {{JList([value.items EXCEPT ![i] = w]) : w \in Reorderings(value.items[i])} :
                   i \in 1..Len(value.items)}
      [] value.type = "tuple" ->
            UNION {{JTuple([value.items EXCEPT ![i] = w]) : w \in Reorderings(value.items[i])} :
                   i \in 1..Len(value.items)}
      [] OTHER -> {}

\* value with one of its whole numbers, at any depth, written as a float where
\* it was an int, or as an int where it was a float
RECURSIVE Renumberings(_)
Renumberings(value) ==
    CASE value.type = "dict" ->
            UNION {{JDict([value.pairs EXCEPT ![i] = <<@[1], w>>]) :
                       w \in Renumberings(value.pairs[i][2])} :
                   i \in 1..Len(value.pairs)}
      [] value.type = "list" ->
            UNION {{JList([value.items EXCEPT ![i] = w]) : w \in Renumberings(value.items[i])} :
                   i \in 1..Len(value.items)}
      [] value.type = "tuple" ->
            UNION {{JTuple([value.items EXCEPT ![i] = w]) : w \in Renumberings(value.items[i])} :
                   i \in 1..Len(value.items)}
      [] value.type = "int" ->
            {JFloat(value.n < 0, 2 * (IF value.n < 0 THEN 0 - value.n ELSE value.n))}
      [] value.type = "float" -> IF IsInteger(value) THEN {JInt(IntOf(value))} ELSE {}
      [] OTHER -> {}

-----------------------------------------------------------------------------
(* The process: callers on threads, the environment, the clock *)

Init ==
    /\ environ \in Environments
    /\ _SALT_SECRET = None
    /\ _DEFAULT_ANALYZER = None
    /\ built = 0
    /\ now = 0
    /\ engines = <<>>
    /\ pc = [t \in Threads |-> "idle"]
    /\ frame = [t \in Threads |-> NoFrame]
    /\ result = [t \in Threads |-> NoResult]
    /\ reads = [v \in EnvVars |-> <<>>]
    /\ calls = 0
    /\ writes = 0
    /\ _PIISCRUBBER = None
    /\ _BLOCKED_COUNTER = None
    /\ request = NoRequest
    /\ background_tasks = <<>>
    /\ whylogs = <<>>
    /\ payload = JNull
    /\ rewritten = JNull
    /\ rewrites = 0
    /\ canonical = None

Scrub(t, texts, offs, n) ==
    \/ \E e \in 1..Len(engines), text \in texts : ScrubBegin(t, e, text)
    \/ ScrubAnalyze(t, offs, n)
    \/ ScrubLoop(t)

Construct(t) ==
    \/ \E override \in {None, Some(0)} : CtorBegin(t, override)
    \/ LoadPepper(t)
    \/ CtorAnalyzer(t)
    \/ AnalyzerNew(t)

GetSalt(t) ==
    \/ \E ts \in {0, MaxNow} : GetSaltBegin(t, ts)
    \/ SaltCheck(t)
    \/ SaltLoad(t)
    \/ SaltStore(t)
    \/ GetSaltEnd(t)

Next ==
    \/ (\E name \in EnvVars, value \in EnvValues : SetEnv(name, value)) /\ UNCHANGED <<main, tests>>
    \/ (\E name \in EnvVars : UnsetEnv(name)) /\ UNCHANGED <<main, tests>>
    \/ Tick /\ UNCHANGED <<main, tests>>
    \/ (\E t \in Threads : Construct(t)) /\ UNCHANGED <<main, tests>>
    \/ (\E t \in Threads : GetSalt(t)) /\ UNCHANGED <<main, tests>>
    \/ (\E t \in Threads : Scrub(t, Texts, Offsets, MaxSpans)) /\ UNCHANGED <<main, tests>>

Spec == Init /\ [][Next]_vars

-----------------------------------------------------------------------------
(* The process once startup has constructed its PIIScrubber (main.py's       *)
(* _PIISCRUBBER): both secrets were usable, the salt secret is cached, the   *)
(* default analyzer is built, one instance exists.                           *)

Usable == {v \in EnvValues : Strip(v) # <<>>}

InitServing ==
    /\ environ \in [EnvVars -> Usable]
    /\ _SALT_SECRET = Some(Encode(environ["PII_SALT_SECRET"]))
    /\ _DEFAULT_ANALYZER = Some(1)
    /\ built = 1
    /\ now = 0
    /\ engines = <<[pepper |-> Some(environ["PII_PEPPER"]), analyzer |-> Some(1)]>>
    /\ pc = [t \in Threads |-> "idle"]
    /\ frame = [t \in Threads |-> NoFrame]
    /\ result = [t \in Threads |-> NoResult]
    /\ reads = [v \in EnvVars |-> <<Some(environ[v])>>]
    /\ calls = 0
    /\ writes = 0
    /\ _PIISCRUBBER = Some(1)
    /\ _BLOCKED_COUNTER = Some(0)
    /\ request = NoRequest
    /\ background_tasks = <<>>
    /\ whylogs = <<>>
    /\ payload = JNull
    /\ rewritten = JNull
    /\ rewrites = 0
    /\ canonical = None

\* concurrent scrub calls on the one instance, while the clock runs
NextScrub ==
    \/ Tick /\ UNCHANGED <<main, tests>>
    \/ (\E t \in Threads : Scrub(t, TextsGate, Offsets, MaxSpans)) /\ UNCHANGED <<main, tests>>

SpecScrub == InitServing /\ [][NextScrub]_vars

\* one caller, the detector free to answer with any list of spans
NextResolve ==
    \/ Tick /\ UNCHANGED <<main, tests>>
    \/ Scrub(1, TextsWide, OffsetsWide, MaxSpansWide) /\ UNCHANGED <<main, tests>>

InitResolve ==
    /\ InitServing
    /\ environ = [v \in EnvVars |-> <<"p">>]

SpecResolve == InitResolve /\ [][NextResolve]_vars

\* the calls of one caller, one after the other
NextSeq ==
    \/ (\E name \in EnvVars, value \in EnvValues : SetEnv(name, value)) /\ UNCHANGED <<main, tests>>
    \/ (\E name \in EnvVars : UnsetEnv(name)) /\ UNCHANGED <<main, tests>>
    \/ Tick /\ UNCHANGED <<main, tests>>
    \/ Construct(1) /\ UNCHANGED <<main, tests>>
    \/ GetSalt(1) /\ UNCHANGED <<main, tests>>
    \/ Scrub(1, Texts, Offsets, MaxSpans) /\ UNCHANGED <<main, tests>>

SpecSeq == Init /\ [][NextSeq]_vars

\* the sidecar serving /analyze requests, whether or not startup has run
InitAnalyze == Init \/ InitServing

NextAnalyze ==
    \/ Tick /\ UNCHANGED <<main, tests>>
    \/ (\E prompt \in Texts : AnalyzeBegin(1, prompt)) /\ UNCHANGED tests
    \/ (LoadPepper(1) \/ SaltCheck(1) \/ SaltLoad(1) \/ SaltStore(1)) /\ UNCHANGED <<main, tests>>
    \/ (CtorAnalyzer(1) \/ AnalyzerNew(1)) /\ UNCHANGED <<main, tests>>
    \/ AnalyzeConstructed(1) /\ UNCHANGED tests
    \/ (ScrubAnalyze(1, Offsets, MaxSpans) \/ ScrubLoop(1)) /\ UNCHANGED <<main, tests>>
    \/ AnalyzeScrubbed(1) /\ UNCHANGED tests
    \/ (\E injection \in Scores, toxicity \in Scores : AnalyzeScore(injection, toxicity))
          /\ UNCHANGED tests
    \/ (\E added \in BOOLEAN : AnalyzeVerdict(added)) /\ UNCHANGED tests
    \/ RunTask /\ UNCHANGED tests

SpecAnalyze == InitAnalyze /\ [][NextAnalyze]_vars

-----------------------------------------------------------------------------
(* The canonicalization tests: a payload is written differently, step by     *)
(* step, and both are canonicalized and hashed                               *)

\* the rewritten payload takes the place of the one compared with the original
Rewrite(value) ==
    /\ rewrites < MaxRewrites
    /\ rewrites' = rewrites + 1
    /\ rewritten' = value
    /\ canonical' = None
    /\ UNCHANGED payload

\* a dict of the payload is built with two keys inserted in the other order
Reorder == \E value \in Reorderings(rewritten) : Rewrite(value)

\* a whole number of the payload is written as a float, or as an int
Renumber == \E value \in Renumberings(rewritten) : Rewrite(value)

\* the payload is replaced by its normalized form
Renormalize == Normalize(rewritten) # rewritten /\ Rewrite(Normalize(rewritten))

\* to_canonical_json and get_deterministic_hash of both payloads
Canonicalize ==
    /\ canonical = None
    /\ canonical' = Some([json |-> <<ToCanonicalJson(payload), ToCanonicalJson(rewritten)>>,
                          hash |-> <<GetDeterministicHash(payload),
                                     GetDeterministicHash(rewritten)>>])
    /\ UNCHANGED <<payload, rewritten, rewrites>>

InitCanon ==
    /\ environ = [v \in EnvVars |-> <<"p">>]
    /\ _SALT_SECRET = None
    /\ _DEFAULT_ANALYZER = None
    /\ built = 0
    /\ now = 0
    /\ engines = <<>>
    /\ pc = [t \in Threads |-> "idle"]
    /\ frame = [t \in Threads |-> NoFrame]
    /\ result = [t \in Threads |-> NoResult]
    /\ reads = [v \in EnvVars |-> <<>>]
    /\ calls = 0
    /\ writes = 0
    /\ _PIISCRUBBER = None
    /\ _BLOCKED_COUNTER = None
    /\ request = NoRequest
    /\ background_tasks = <<>>
    /\ whylogs = <<>>
    /\ \E i \in 1..Len(Payloads) : payload = Payloads[i]
    /\ rewritten = payload
    /\ rewrites = 0
    /\ canonical = None

\* the tests run without the sidecar
NextCanon ==
    \/ Reorder /\ UNCHANGED <<security, main>>
    \/ Renumber /\ UNCHANGED <<security, main>>
    \/ Renormalize /\ UNCHANGED <<security, main>>
    \/ Canonicalize /\ UNCHANGED <<security, main>>

SpecCanon == InitCanon /\ [][NextCanon]_vars

-----------------------------------------------------------------------------
(* Properties *)

\* a variable that is unset, or holds nothing but whitespace
Unusable(v) == v = None \/ \A i \in 1..Len(Get(v)) : Get(v)[i] \in Whitespace

\* os.environ.get(name) as the finished call r left the environment
EnvOf(r, name) == IF name \in DOMAIN r.env THEN Some(r.env[name]) ELSE None

\* the threads whose last call, of kind `call`, ended with os.environ the same
\* all the while it ran
Settled(call) == {t \in Threads : result[t].call = call /\ result[t].stable}

\* C1, as stated: whatever happened before, a construction fails when PII_PEPPER
\* is unset or blank, fails when PII_SALT_SECRET is unset or blank, and succeeds
\* when both are set to non-blank values.
C1_AsStated ==
    \A t \in Settled("ctor") : LET r == result[t] IN
        /\ Unusable(EnvOf(r, "PII_PEPPER")) => r.status = "ValueError"
        /\ Unusable(EnvOf(r, "PII_SALT_SECRET")) => r.status = "ValueError"
        /\ (~Unusable(EnvOf(r, "PII_PEPPER")) /\ ~Unusable(EnvOf(r, "PII_SALT_SECRET")))
              => r.status = "ok"

\* C1, amended: a construction fails when PII_PEPPER is unset or blank; it fails
\* when PII_SALT_SECRET is unset or blank unless it finds a salt secret cached by
\* an earlier load, in which case the variable is not consulted and it succeeds
\* with a usable pepper; it succeeds when both are set to non-blank values.
C1_FailClosed ==
    \A t \in Settled("ctor") : LET r == result[t] IN
        /\ Unusable(EnvOf(r, "PII_PEPPER")) => r.status = "ValueError"
        /\ (Unusable(EnvOf(r, "PII_SALT_SECRET")) /\ r.f.cache # "hit")
              => r.status = "ValueError"
        /\ (~Unusable(EnvOf(r, "PII_PEPPER")) /\ ~Unusable(EnvOf(r, "PII_SALT_SECRET")))
              => r.status = "ok"
        /\ (~Unusable(EnvOf(r, "PII_PEPPER")) /\ r.f.cache = "hit") => r.status = "ok"

\* a construction succeeded with PII_SALT_SECRET unusable, on the cached secret
C1_Witness ==
    \E t \in Settled("ctor") : LET r == result[t] IN
        /\ Unusable(EnvOf(r, "PII_SALT_SECRET"))
        /\ r.f.cache = "hit"
        /\ r.status = "ok"

\* C2: when analyzer.analyze raises inside scrub, that call ends by raising, hands
\* back no text, and has invoked the detector exactly once.
C2_DetectionFailurePropagates ==
    \A t \in Threads :
        /\ ~frame[t].raised
        /\ result[t].f.raised =>
              /\ result[t].call = "scrub"
              /\ result[t].status = "AnalyzerError"
              /\ result[t].value = None
              /\ result[t].f.analyzed = 1

\* a scrub call whose detector raised has ended
C2_Witness ==
    \E t \in Threads : result[t].f.raised /\ result[t].f.text = EmailText

-----------------------------------------------------------------------------
(* Properties of the span loop *)

\* the threads whose last call is a scrub that returned, the detector having answered
Scrubbed == {t \in Threads : /\ result[t].call = "scrub"
                             /\ result[t].status = "ok"
                             /\ result[t].f.answer # None}

\* offsets present and 0 <= start <= end <= len(text)
WellFormed(res, text) ==
    /\ res.start # None
    /\ res.end # None
    /\ 0 <= Get(res.start)
    /\ Get(res.start) <= Get(res.end)
    /\ Get(res.end) <= Len(text)

\* the positions of a scrubbed string that hold a digest
Digests(out) == {i \in 1..Len(out) : "sha256" \in DOMAIN out[i]}

\* the elements of a sequence
Range(seq) == {seq[i] : i \in 1..Len(seq)}

\* how often x occurs in a sequence
Count(seq, x) == Cardinality({i \in 1..Len(seq) : seq[i] = x})

\* C3: for spans with valid offsets, walked in ascending (start, end) order, a span
\* is dropped exactly when it starts before the end of the most recently accepted
\* span; accepted spans do not overlap; the output holds one digest per accepted
\* span and ends with the untouched text behind the last one; spans (0,5), (3,8)
\* give the digest of [0,5) followed by the text from offset 5.
C3_OverlapPolicy ==
    /\ \A t \in Scrubbed :
        LET f == result[t].f
            rs == f.results
            acc == Range(f.accepted)
            out == Get(result[t].value)
        IN  (\A x \in Range(Get(f.answer)) : WellFormed(x, f.text)) =>
              \* walked in ascending (start, end) order, nothing lost or added
              /\ \A x \in Range(rs) \cup Range(Get(f.answer)) :
                    Count(rs, x) = Count(Get(f.answer), x)
              /\ \A k \in 1..(Len(rs) - 1) :
                    \/ Get(rs[k].start) < Get(rs[k + 1].start)
                    \/ /\ Get(rs[k].start) = Get(rs[k + 1].start)
                       /\ Get(rs[k].end) <= Get(rs[k + 1].end)
              \* dropped iff it starts before the end of the last accepted span
              /\ \A k \in 1..Len(rs) :
                    k \notin acc <=>
                        \E j \in acc : /\ j < k
                                       /\ \A j2 \in acc : j2 < k => j2 <= j
                                       /\ Get(rs[k].start) < Get(rs[j].end)
              /\ \A j \in acc, k \in acc :
                    j < k => Get(rs[j].end) <= Get(rs[k].start)
              /\ Cardinality(Digests(out)) = Len(f.accepted)
              /\ f.accepted # <<>> =>
                    LET last == Get(rs[f.accepted[Len(f.accepted)]].end)
                        n == Len(f.text) - last
                    IN  /\ "sha256" \in DOMAIN out[Len(out) - n]
                        /\ SubSeq(out, Len(out) - n + 1, Len(out))
                             = Lits(SubSeq(f.text, last + 1, Len(f.text)))
    /\ Resolve(PhoneText, <<Span(Some(0), Some(5)), Span(Some(3), Some(8))>>,
               "salt", <<"p">>)
         = <<HashEntity(SubSeq(PhoneText, 1, 5), "salt", <<"p">>)>>
             \o Lits(SubSeq(PhoneText, 6, 8))

\* of two valid overlapping spans the first was replaced and the second dropped
C3_Witness ==
    \E t \in Scrubbed :
        LET f == result[t].f
        IN  /\ Len(f.results) = 2
            /\ \A x \in Range(f.results) : WellFormed(x, f.text)
            /\ f.accepted = <<1>>
            /\ Get(f.results[1].start) < Get(f.results[2].start)
            /\ Get(f.results[2].start) < Get(f.results[1].end)
            /\ Get(f.results[2].end) > Get(f.results[1].end)

\* the detector answer without its malformed spans
RECURSIVE WithoutMalformed(_, _)
WithoutMalformed(answer, text) ==
    IF answer = <<>> THEN <<>>
    ELSE IF WellFormed(Head(answer), text)
         THEN <<Head(answer)>> \o WithoutMalformed(Tail(answer), text)
         ELSE WithoutMalformed(Tail(answer), text)

\* what the finished scrub of thread t would have returned for `answer`, with the
\* salt its digests were made with
Redone(t, answer) ==
    LET f == result[t].f
    IN  IF f.times = {}
        THEN Resolve(f.text, answer, "none", Get(engines[f.eng].pepper))
        ELSE Resolve(f.text, answer,
                     SaltDigest(CHOOSE k \in f.keys : TRUE, CHOOSE ts \in f.times : TRUE),
                     Get(engines[f.eng].pepper))

\* the clock stayed in one month and the salt secret the same while thread t's
\* finished scrub made its digests
OneSalt(t) ==
    /\ Cardinality(result[t].f.keys) <= 1
    /\ \A a \in result[t].f.times, b \in result[t].f.times :
          a \div TicksPerMonth = b \div TicksPerMonth

\* C4, as stated: a span whose start or end is missing, or whose offsets are not
\* 0 <= start <= end <= len(text), is discarded without an error, and the output
\* is the one the same answer gives with those spans removed.
C4_AsStated ==
    \A t \in Scrubbed :
        LET f == result[t].f
        IN  /\ \A k \in Range(f.accepted) : WellFormed(f.results[k], f.text)
            /\ OneSalt(t) =>
                  Get(result[t].value) = Redone(t, WithoutMalformed(Get(f.answer), f.text))

\* C6, as stated: scrub returns the text unchanged, and computes no digest, when
\* the detector returns no spans and when every span it returns has missing or
\* invalid offsets.
C6_AsStated ==
    \A t \in Scrubbed :
        LET f == result[t].f
        IN  (\A x \in Range(Get(f.answer)) : ~WellFormed(x, f.text)) =>
              /\ Get(result[t].value) = Lits(f.text)
              /\ f.times = {}
              /\ f.accepted = <<>>

-----------------------------------------------------------------------------
(* Properties of the gates, the salt and the secrets *)

\* C5: scrub returns its input unchanged without invoking the detector when the
\* text is empty or matches neither the email nor the phone pattern; the detector
\* is invoked only for a non-empty text that matches one of them.
C5_GateOrdering ==
    \A t \in Threads :
        /\ (/\ result[t].call = "scrub"
            /\ \/ result[t].f.text = <<>>
               \/ ~(EmailSearch(result[t].f.text) \/ PhoneSearch(result[t].f.text)))
              => /\ result[t].status = "ok"
                 /\ result[t].value = Some(Lits(result[t].f.text))
                 /\ result[t].f.analyzed = 0
        /\ \A f \in {frame[t], result[t].f} :
              (f.analyzed > 0 \/ (f = frame[t] /\ pc[t] = "scrub_analyze"))
                 => /\ f.text # <<>>
                    /\ EmailSearch(f.text) \/ PhoneSearch(f.text)

\* one caller got a text of digits back unscreened by the detector while the
\* detector was invoked for the other's phone number
C5_Witness ==
    \E t \in Threads, u \in Threads :
        /\ result[t].call = "scrub"
        /\ result[t].f.text = DigitsText
        /\ result[t].f.analyzed = 0
        /\ result[u].f.text = PhoneText
        /\ result[u].f.analyzed = 1

\* the calendar months of the clock readings thread t's finished call salted with
Months(t) == {ts \div TicksPerMonth : ts \in result[t].f.times}

\* C7: on one instance with the same secrets and the same detector answer, two
\* scrub calls on the same input return the same output when the clock is in the
\* same UTC month at both, and digests that differ when it is in different months.
C7_PeriodDeterminism ==
    \A t \in Scrubbed, u \in Scrubbed :
        (/\ result[t].f.eng = result[u].f.eng
         /\ result[t].f.text = result[u].f.text
         /\ result[t].f.answer = result[u].f.answer
         /\ result[t].f.keys = result[u].f.keys
         /\ OneSalt(t)
         /\ OneSalt(u))
          => /\ Months(t) = Months(u) => result[t].value = result[u].value
             /\ Months(t) # Months(u) =>
                   \A i \in Digests(Get(result[t].value)),
                      j \in Digests(Get(result[u].value)) :
                        Get(result[t].value)[i] # Get(result[u].value)[j]

\* the same input scrubbed in two different months, a digest in each output
C7_Witness ==
    \E t \in Scrubbed, u \in Scrubbed :
        /\ result[t].f.text = result[u].f.text
        /\ result[t].f.answer = result[u].f.answer
        /\ result[t].f.accepted # <<>>
        /\ Months(t) # {}
        /\ Months(u) # {}
        /\ Months(t) # Months(u)

\* the reads of a variable made by the call whose locals are f
ReadsOf(f, name) == {i \in 1..Len(f.log) : f.log[i][1] = name}

BlankBytes(b) == \A i \in 1..Len(b) : b[i] \in {9, 10, 13, 32}

\* C9: a failed construction yields no instance; every instance holds a non-blank
\* pepper and its analyzer, and while one exists a non-blank salt secret is
\* cached; no scrub call reads the environment, raises the configuration error or
\* makes a digest with a blank secret.
C9_NoPartialEngine ==
    /\ \A e \in 1..Len(engines) :
          /\ ~Unusable(engines[e].pepper)
          /\ engines[e].analyzer # None
          /\ _SALT_SECRET # None
          /\ ~BlankBytes(Get(_SALT_SECRET))
    /\ \A t \in Threads :
          /\ (result[t].call = "ctor" /\ result[t].status = "ValueError") =>
                result[t].value = None
          /\ (result[t].call = "ctor" /\ result[t].status = "ok") =>
                Get(result[t].value) \in 1..Len(engines)
          /\ \A f \in {frame[t], result[t].f} :
                f.ret = "scrub" =>
                   /\ f.log = <<>>
                   /\ f.cache = "unseen"
                   /\ \A k \in f.keys : ~BlankBytes(k)
          /\ frame[t].ret = "scrub" => pc[t] \in {"scrub_analyze", "scrub_loop"}
          /\ result[t].call = "scrub" => result[t].status # "ValueError"

\* an instance exists, and a scrub call on it has replaced a span by a digest
C9_Witness ==
    \E t \in Scrubbed : result[t].f.accepted # <<>> /\ result[t].f.eng \in 1..Len(engines)

-----------------------------------------------------------------------------
(* Properties of the process-wide caches *)

\* C11, as stated: under any interleaving of constructions and get_salt calls,
\* with the environment changing between steps, once a salt secret is stored in
\* _SALT_SECRET the stored value never changes again.
C11_AsStated == [][_SALT_SECRET # None => _SALT_SECRET' = _SALT_SECRET]_vars

\* C12, as stated: whatever the sequence or interleaving of constructions made
\* without an analyzer override, AnalyzerEngine() is constructed at most once in
\* the process and every such instance holds that one analyzer.
C12_AsStated ==
    /\ built <= 1
    /\ \A i \in 1..Len(engines), j \in 1..Len(engines) :
          (engines[i].analyzer # Some(0) /\ engines[j].analyzer # Some(0))
             => engines[i].analyzer = engines[j].analyzer

-----------------------------------------------------------------------------
(* Properties of the /analyze handler *)

\* the scrub call made for the request in hand has returned, and this is its outcome
Redacted ==
    /\ result[1].call = "scrub"
    /\ result[1].status = "ok"
    /\ result[1].f.text = request.prompt

\* payload p carries what scrub returned for the request in hand, which is not
\* the raw prompt when scrub replaced a span
CarriesRedacted(p) ==
    /\ Redacted
    /\ p.prompt = Get(result[1].value)
    /\ result[1].f.accepted # <<>> => p.prompt # Lits(request.prompt)

\* C13: in every run of the /analyze handler the text handed to the score
\* computation, and the text of the whylogs task it enqueues, is what scrub
\* returned for the request's prompt, and the task logs that text; when the
\* construction or scrub raises, nothing is scored and no task is enqueued.
C13_OnlyRedactedLeaves ==
    /\ [][/\ (request.at = "score" /\ request'.at = "verdict") =>
                /\ Len(whylogs') = Len(whylogs) + 1
                /\ CarriesRedacted(whylogs'[Len(whylogs')])
          /\ Len(background_tasks') > Len(background_tasks) =>
                /\ Len(background_tasks') = Len(background_tasks) + 1
                /\ request.at = "verdict"
                /\ CarriesRedacted(background_tasks'[Len(background_tasks')])
          /\ (request' = request /\ whylogs' # whylogs) =>
                /\ background_tasks # <<>>
                /\ whylogs' = Append(whylogs, Head(background_tasks))
          /\ (request.response # "raised" /\ request'.response = "raised") =>
                /\ whylogs' = whylogs
                /\ background_tasks' = background_tasks]_vars
    /\ [](/\ request.at \in {"score", "verdict"} =>
                /\ Redacted
                /\ request.scrubbed_prompt = result[1].value
                /\ request.redacted = result[1].value
          /\ request.response = "raised" => request.scores = 0 /\ request.tasks = 0
          /\ request.at \in {"ctor", "scrub"} => request.scores = 0 /\ request.tasks = 0)

\* the whylogs task has logged a prompt in which scrub had put a digest
C13_Witness ==
    \E i \in 1..Len(whylogs) :
        /\ whylogs[i].fn = "_log_to_whylogs"
        /\ Digests(whylogs[i].prompt) # {}

-----------------------------------------------------------------------------
(* The span loop against the algorithm it is specified by *)

\* the spans in ascending (start, end) order
RECURSIVE Ascending(_)
Ascending(spans) ==
    IF spans = <<>> THEN <<>>
    ELSE LET key(i) == <<Get(spans[i].start), Get(spans[i].end)>>
             m == CHOOSE i \in 1..Len(spans) :
                     \A j \in 1..Len(spans) : ~KeyLess(key(j), key(i))
         IN  <<spans[m]>> \o Ascending(SubSeq(spans, 1, m - 1) \o SubSeq(spans, m + 1, Len(spans)))

\* steps 3 to 5 of the specified algorithm: a span starting before the cursor is
\* dropped; otherwise text[cursor:start] and the digest of text[start:end] are
\* appended and the cursor moves to end; text[cursor:] is appended last
RECURSIVE Rebuild(_, _, _, _, _)
Rebuild(text, spans, cursor, salt, pepper) ==
    IF spans = <<>> THEN Lits(SubSeq(text, cursor + 1, Len(text)))
    ELSE LET start == Get(Head(spans).start)
             end == Get(Head(spans).end)
         IN  IF start < cursor
             THEN Rebuild(text, Tail(spans), cursor, salt, pepper)
             ELSE Lits(SubSeq(text, cursor + 1, start))
                  \o <<HashEntity(SubSeq(text, start + 1, end), salt, pepper)>>
                  \o Rebuild(text, Tail(spans), end, salt, pepper)

\* the specified algorithm: discard the spans with a missing or invalid offset,
\* sort the rest, rebuild the text
Reference(text, answer, salt, pepper) ==
    Rebuild(text, Ascending(WithoutMalformed(answer, text)), 0, salt, pepper)

\* the salt the digests of thread t's finished scrub were made with
SaltUsed(t) ==
    LET f == result[t].f
    IN  IF f.times = {} THEN "none"
        ELSE SaltDigest(CHOOSE k \in f.keys : TRUE, CHOOSE ts \in f.times : TRUE)

\* C14, as stated: for every text and every list of spans the detector returns,
\* in any order, overlapping, with missing offsets, scrub returns what the
\* specified algorithm returns.
C14_AsStated ==
    \A t \in Scrubbed :
        LET f == result[t].f
        IN  OneSalt(t) =>
               Get(result[t].value) =
                  Reference(f.text, Get(f.answer), SaltUsed(t), Get(engines[f.eng].pepper))

-----------------------------------------------------------------------------
(* Properties of the guardrail decision *)

\* C15: a request that completes is answered allowed = false with reason
\* "Security Risk" exactly when the injection score or the toxicity score is
\* above 0.8, and allowed = true with reason "Allowed" otherwise; the blocked
\* counter is incremented only in deciding a request that is not allowed.
C15_GuardrailVerdict ==
    /\ [](request.response = "200" =>
            LET risky == request.injection_score > 80 \/ request.toxicity_score > 80
            IN  /\ risky <=> (~request.allowed /\ request.reason = "Security Risk")
                /\ ~risky <=> (request.allowed /\ request.reason = "Allowed")
                /\ request.counted > 0 => ~request.allowed
                /\ request.counted <= 1)
    /\ [][_BLOCKED_COUNTER' # _BLOCKED_COUNTER =>
            /\ request.at = "verdict"
            /\ request'.response = "200"
            /\ ~request'.allowed
            /\ request'.counted = 1
            /\ _BLOCKED_COUNTER # None
            /\ _BLOCKED_COUNTER' = Some(Get(_BLOCKED_COUNTER) + 1)]_vars

\* a request was blocked and counted on its injection score alone, its toxicity
\* score being exactly the threshold
C15_Witness ==
    /\ request.response = "200"
    /\ ~request.allowed
    /\ request.injection_score > threshold
    /\ request.toxicity_score = threshold
    /\ request.counted = 1
    /\ _BLOCKED_COUNTER = Some(1)

-----------------------------------------------------------------------------
(* Properties of the canonical hashing *)

-----------------------------------------------------------------------------
(* Properties of the salt within one scrub call *)

\* the digests of a scrubbed string, in the order of the accepted spans
Tokens(out) == SelectSeq(out, LAMBDA x : "sha256" \in DOMAIN x)

\* the text the n-th accepted span of a scrub with locals f covers
Covered(f, n) ==
    LET res == f.results[f.accepted[n]]
    IN  Slice(f.text, Get(res.start), Get(res.end))

\* the monthly salt inside the digest made of value
SaltOf(digest, value) == digest.sha256[Len(value) + 1]

\* C17, as stated: within one scrub call every accepted span is hashed with the
\* salt of the same UTC month, so two accepted spans covering the same value get
\* the same token, however the clock advances during the call.
C17_AsStated ==
    \A t \in Scrubbed :
        LET f == result[t].f
            tok == Tokens(Get(result[t].value))
        IN  /\ Cardinality(Months(t)) <= 1
            /\ \A i \in 1..Len(f.accepted), j \in 1..Len(f.accepted) :
                  Covered(f, i) = Covered(f, j) => tok[i] = tok[j]

\* C17, amended: every accepted span is hashed with the salt of the UTC month
\* the clock shows when that span is hashed; two accepted spans covering the same
\* value get the same token when the clock stays in one month during the call,
\* and different tokens when a month boundary passes between their two hashes.
C17_SaltPerSpan ==
    /\ [][\A t \in Threads :
            LET after == IF pc'[t] = "idle" THEN result'[t].f ELSE frame'[t]
                n == Len(after.accepted)
            IN  (/\ pc[t] = "scrub_loop"
                 /\ n > Len(frame[t].accepted))
                  => LET digest == IF pc'[t] = "idle"
                                   THEN Tokens(Get(result'[t].value))[n]
                                   ELSE after.parts[Len(after.parts)]
                     IN  digest = HashEntity(Covered(after, n),
                                             SaltDigest(Get(_SALT_SECRET), now),
                                             Get(engines[after.eng].pepper))]_vars
    /\ [](\A t \in Scrubbed :
            LET f == result[t].f
                tok == Tokens(Get(result[t].value))
            IN  \A i \in 1..Len(f.accepted), j \in 1..Len(f.accepted) :
                  Covered(f, i) = Covered(f, j) =>
                    /\ Cardinality(Months(t)) <= 1 => tok[i] = tok[j]
                    /\ tok[i] = tok[j] <=>
                          SaltOf(tok[i], Covered(f, i)) = SaltOf(tok[j], Covered(f, j)))

\* a scrub replaced two spans covering the same value while a month boundary
\* passed between the two hashes, and the two tokens differ
C17_Witness ==
    \E t \in Scrubbed :
        LET f == result[t].f
            tok == Tokens(Get(result[t].value))
        IN  /\ Len(f.accepted) = 2
            /\ Covered(f, 1) = Covered(f, 2)
            /\ Covered(f, 1) # <<>>
            /\ Cardinality(Months(t)) = 2
            /\ tok[1] # tok[2]

-----------------------------------------------------------------------------
(* Properties of a construction that fails *)

\* the process-wide state a construction may write
Caches == <<_SALT_SECRET, _DEFAULT_ANALYZER, built, engines>>

\* thread t is inside PIIScrubber.__init__
Constructing(t) == pc[t] # "idle" /\ frame[t].ret = "ctor"

\* the secrets a load accepts, as they are cached
UsableSecrets == {Encode(v) : v \in {w \in EnvValues : ~Missing(Some(w))}}

\* C18: a construction that fails because a secret is unset or blank writes
\* nothing: the step that raises, and every step of that call before it, leave
\* _SALT_SECRET, _DEFAULT_ANALYZER and the instances unchanged; no blank secret
\* is ever cached; and a construction that finds both variables non-blank
\* succeeds, whatever failed before it.
C18_FailedConstruction ==
    /\ [][\A t \in Threads :
            Constructing(t) =>
              \* the raising step writes nothing, and raises before any secret
              \* or analyzer is in hand
              /\ (pc'[t] = "idle" /\ result'[t].status = "ValueError")
                    => /\ Caches' = Caches
                       /\ frame[t].secret = None
                       /\ frame[t].self.analyzer = None
              \* a step of the call that writes has both secrets in hand
              /\ (pc'[t] # pc[t] /\ Caches' # Caches)
                    => /\ ~Missing(frame[t].self.pepper)
                       /\ frame[t].secret # None
                       /\ Get(frame[t].secret) \in UsableSecrets
              \* and they stay in hand until the call ends, which is then a success
              /\ frame[t].secret # None
                    => IF pc'[t] = "idle"
                       THEN result'[t].status = "ok"
                       ELSE /\ frame'[t].secret = frame[t].secret
                            /\ frame'[t].self.pepper = frame[t].self.pepper]_vars
    /\ [](_SALT_SECRET # None => Get(_SALT_SECRET) \in UsableSecrets)
    /\ [](\A t \in Settled("ctor") :
            (/\ ~Unusable(EnvOf(result[t], "PII_PEPPER"))
             /\ ~Unusable(EnvOf(result[t], "PII_SALT_SECRET")))
              => result[t].status = "ok")

\* two constructions were made: the first read a blank or unset PII_SALT_SECRET
\* and failed with nothing cached, the variable was then set, and the second
\* loaded the secret and succeeded
C18_Witness ==
    /\ calls = 2
    /\ Len(reads["PII_PEPPER"]) = 2
    /\ Len(reads["PII_SALT_SECRET"]) = 2
    /\ Missing(reads["PII_SALT_SECRET"][1])
    /\ ~Missing(reads["PII_SALT_SECRET"][2])
    /\ writes = 1
    /\ \E t \in Settled("ctor") :
          /\ result[t].status = "ok"
          /\ result[t].f.cache = "miss"
    /\ _SALT_SECRET # None
    /\ Len(engines) = 1

=============================================================================
